---- MODULE Spec2Model ----
(***************************************************************************)
(* Sudoku-Canvas: the puzzle engine of sudoku-web/src/sudoku.tsx.          *)
(*                                                                         *)
(* The program plays on a 9x9 grid with 3x3 boxes.  The model keeps every  *)
(* algorithm as written but runs it on a grid of BoxN*BoxN rows with       *)
(* BoxN x BoxN boxes, BoxN = 2 (4x4, digits 1..4), and scales the number   *)
(* of cells the generator removes accordingly (RemoveBase, RemoveSpan).    *)
(* Coordinates are 0-based as in the source.                               *)
(*                                                                         *)
(* Specifications:                                                         *)
(*   SpecGen        one run of generateNewPuzzle: solve step by step on    *)
(*                  the empty grid, then one carving attempt per step      *)
(*   SpecSolve      solve step by step on given grids and orderings        *)
(*   FairSpecSolve  SpecSolve, with the calls that are under way running   *)
(*   SpecCount      countSolutions on given grids                          *)
(*   Spec           a session of the Sudoku component: mouse, keyboard,    *)
(*                  buttons                                                *)
(***************************************************************************)
EXTENDS Integers, Sequences, FiniteSets, TLC

BoxN == 2
N == BoxN * BoxN
Idx == 0 .. (N - 1)
Digits == 1 .. N
Cells == Idx \X Idx

(* type Cell = number | Set<number> | null, as a tagged record *)
Null == [k |-> "null", v |-> 0, s |-> {}]
Num(d) == [k |-> "num", v |-> d, s |-> {}]
Marks(S) == [k |-> "set", v |-> 0, s |-> S]

IsNull(cell) == cell.k = "null"
IsNum(cell) == cell.k = "num"
IsSet(cell) == cell.k = "set"

(* Array.from({ length: 9 }, () => Array(9).fill(null)) *)
emptyBoard == CHOOSE b \in [Cells -> {Null}] : TRUE

(* a deep copy: grids are values here, so the copy is the grid itself and
   every later EXCEPT on it leaves the original as it was *)
cloneBoard(b) == b

(* Math.floor(r / 3) * 3 *)
BoxStart(i) == (i \div BoxN) * BoxN

SameBox(p, q) == BoxStart(p[1]) = BoxStart(q[1]) /\ BoxStart(p[2]) = BoxStart(q[2])

(* the cells the three scans of isValid / removeCandidates / pencilConflict visit *)
UnitOf == [p \in Cells |-> {q \in Cells : q[1] = p[1] \/ q[2] = p[2] \/ SameBox(p, q)}]
Unit(p) == UnitOf[p]

(* row-major scan order of findEmpty *)
RowMajor(p) == p[1] * N + p[2]

(* the scan of findEmpty from the i-th cell on: the first cell in row-major
   order that holds null, <<>> for the null the function returns *)
findEmptyFrom(b, i) ==
  LET E == {p \in Cells : RowMajor(p) >= i /\ IsNull(b[p])}
  IN  IF E = {} THEN <<>>
      ELSE CHOOSE p \in E : \A q \in E : RowMajor(p) <= RowMajor(q)

(* findEmpty scanning from the second cell on *)
findEmptyLate(b) == findEmptyFrom(b, 1)

findEmpty(b) == findEmptyFrom(b, 0)

(* ---------------------------------------------------------------------- *)
(* solve                                                                   *)
(* ---------------------------------------------------------------------- *)

Solved(b) == [solved |-> TRUE, grid |-> b]
Unsolvable == [solved |-> FALSE, grid |-> emptyBoard]

(* isValid of solve without the box scan *)
solveIsValidNoBox(board, num, pos) ==
  \A q \in Cells : (q[1] = pos[1] \/ q[2] = pos[2]) => (q = pos \/ board[q] # Num(num))

(* isValid of solve: the cell under test is excluded from the scans *)
solveIsValid(board, num, pos) ==
  \A q \in Unit(pos) : q = pos \/ board[q] # Num(num)

Perms == {f \in [1 .. N -> Digits] : \A i, j \in 1 .. N : f[i] = f[j] => i = j}

(* the for loop of solve over one shuffled order `numbers`, from index i;
   child holds the pairs <<num, o>> with o a result solve can give on the
   board with num placed (Unsolvable also when isValid rejects num) *)
RECURSIVE tryNumbers(_, _, _)
tryNumbers(child, numbers, i) ==
  IF i > N THEN {Unsolvable}
  ELSE LET O == {pr[2] : pr \in {q \in child : q[1] = numbers[i]}}
       IN  {o \in O : o.solved}
             \cup (IF Unsolvable \in O THEN tryNumbers(child, numbers, i + 1) ELSE {})

(* every result solve(b) can return when each call's random sort yields an
   order of `orders`; when no number leads to a solution the loop runs out
   under every order and line 90 returns null *)
RECURSIVE solve(_, _)
solve(b, orders) ==
  LET board == cloneBoard(b)
      emptyPos == findEmpty(board)
  IN  IF emptyPos = <<>> THEN {Solved(board)}
      ELSE LET child == UNION {
                 LET placed == [board EXCEPT ![emptyPos] = Num(num)]
                 IN  IF solveIsValid(placed, num, emptyPos)
                     THEN {<<num, o>> : o \in solve(placed, orders)}
                     ELSE {<<num, Unsolvable>>} : num \in Digits}
           IN  IF \A pr \in child : ~pr[2].solved THEN {Unsolvable}
               ELSE UNION {tryNumbers(child, numbers, 1) : numbers \in orders}

(* ---------------------------------------------------------------------- *)
(* countSolutions                                                          *)
(* ---------------------------------------------------------------------- *)

(* isValid of countSolutions without the row scan *)
countIsValidNoRow(b, num, pos) ==
  \A q \in Cells : (q[2] = pos[2] \/ SameBox(pos, q)) => b[q] # Num(num)

(* isValid of countSolutions: no cell is excluded *)
countIsValid(b, num, pos) ==
  \A q \in Unit(pos) : b[q] # Num(num)

(* backtrack and its for loop from digit num on; the state threaded through
   is the grid being searched and the counter `solutions` *)
RECURSIVE backtrackFrom(_, _, _)
backtrack(st) ==
  LET emptyPos == findEmpty(st.b)
  IN  IF emptyPos = <<>> THEN [b |-> st.b, solutions |-> st.solutions + 1]
      ELSE backtrackFrom(st, emptyPos, 1)

backtrackFrom(st, emptyPos, num) ==
  IF num > N THEN st
  ELSE IF countIsValid(st.b, num, emptyPos)
       THEN LET sub == backtrack([b |-> [st.b EXCEPT ![emptyPos] = Num(num)],
                                  solutions |-> st.solutions])
            IN  IF sub.solutions > 1 THEN sub
                ELSE backtrackFrom([b |-> [sub.b EXCEPT ![emptyPos] = Null],
                                    solutions |-> sub.solutions], emptyPos, num + 1)
       ELSE backtrackFrom(st, emptyPos, num + 1)

(* lines 119 and 136: the grid b as the search leaves it, and the count *)
countSolutionsRun(b) == backtrack([b |-> b, solutions |-> 0])

countSolutions(b) == countSolutionsRun(b).solutions

(* ---------------------------------------------------------------------- *)
(* generateNewPuzzle                                                       *)
(* ---------------------------------------------------------------------- *)

(* Math.random() yields u / RandomSteps for some u in RandomUnits *)
RandomSteps == 22
RandomUnits == 0 .. (RandomSteps - 1)

(* Math.floor(Math.random() * span) + base *)
randomCount(u, span, base) == (u * span) \div RandomSteps + base

(* line 25 draws from a span of 50 - 40 + 1 values starting at 46, of 81
   cells; RemoveSpan and RemoveBase scale them to the 16 cells of the model *)
SourceSpan == 50 - 40 + 1
SourceBase == 46
RemoveSpan == 2
RemoveBase == 3

(* the orders the random sort of solve may yield *)
SortOrders == {<<1, 2, 3, 4>>, <<1, 3, 2, 4>>}

(* countSolutions(puzzle), the counter searching on the caller's grid *)
countOnShared(puzzle) ==
  LET run == countSolutionsRun(puzzle)
  IN  [puzzle |-> run.b, searched |-> run.b, solutions |-> run.solutions]

(* line 36, countSolutions(cloneBoard(puzzle)): the counter searches on the
   copy; the record holds the caller's grid after the call, the grid searched
   on as the counter leaves it, and the count *)
countOnClone(puzzle) ==
  LET run == countSolutionsRun(cloneBoard(puzzle))
  IN  [puzzle |-> puzzle, searched |-> run.b, solutions |-> run.solutions]

(* a pass of the loop that made no call of countSolutions *)
Skipped(puzzle, n) ==
  [puzzle |-> puzzle, cellsToRemove |-> n, outcome |-> "skipped", counted |-> FALSE,
   passed |-> puzzle, after |-> puzzle, searched |-> puzzle, solutions |-> 0]

(* a pass that called countSolutions on `passed` *)
Counted(puzzle, n, outcome, passed, call) ==
  [puzzle |-> puzzle, cellsToRemove |-> n, outcome |-> outcome, counted |-> TRUE,
   passed |-> passed, after |-> call.puzzle, searched |-> call.searched,
   solutions |-> call.solutions]

(* carveAttempt without the uniqueness test: every removal is kept *)
carveAttemptUnchecked(puzzle, n, p) ==
  IF puzzle[p] # Null
  THEN LET cleared == [puzzle EXCEPT ![p] = Null]
       IN  Counted(cleared, n - 1, "kept", cleared, countOnClone(cleared))
  ELSE Skipped(puzzle, n)

(* carveAttempt with cellsToRemove-- ahead of the uniqueness test *)
carveAttemptCountsAll(puzzle, n, p) ==
  IF puzzle[p] # Null
  THEN LET backup == puzzle[p]
           cleared == [puzzle EXCEPT ![p] = Null]
           call == countOnClone(cleared)
       IN  IF call.solutions = 1
           THEN Counted(call.puzzle, n - 1, "kept", cleared, call)
           ELSE Counted([call.puzzle EXCEPT ![p] = backup], n - 1, "restored", cleared, call)
  ELSE Skipped(puzzle, n)

(* carveAttempt that never puts the digit back *)
carveAttemptNoRestore(puzzle, n, p) ==
  IF puzzle[p] # Null
  THEN LET cleared == [puzzle EXCEPT ![p] = Null]
           call == countOnClone(cleared)
       IN  IF call.solutions = 1
           THEN Counted(call.puzzle, n - 1, "kept", cleared, call)
           ELSE Counted(call.puzzle, n, "restored", cleared, call)
  ELSE Skipped(puzzle, n)

(* one pass of the body of the while loop, with the random cell p = (r, c) *)
carveAttempt(puzzle, n, p) ==
  IF puzzle[p] # Null
  THEN LET backup == puzzle[p]
           cleared == [puzzle EXCEPT ![p] = Null]
           call == countOnClone(cleared)
       IN  IF call.solutions = 1
           THEN Counted(call.puzzle, n - 1, "kept", cleared, call)
           ELSE Counted([call.puzzle EXCEPT ![p] = backup], n, "restored", cleared, call)
  ELSE Skipped(puzzle, n)

VARIABLES
  pc,                 \* position in generateNewPuzzle, or "play" during a session
  puzzleAndSolution,  \* [puzzle, solution]: the generator's two grids / the component's state
  cellsToRemove,      \* the generator's countdown
  lastAttempt,        \* what the last pass of the carving loop did
  deals,              \* the pairs generateNewPuzzle can hand to the component
  board,              \* useState<Board>
  pencilMode,         \* useState(false)
  selectedCells,      \* useState<Coords[]>, as a set
  completed,          \* useState(false)
  lastOp,             \* the last event handled
  prevBoard,          \* board before the last event
  heap,               \* the grids solve works with, by object
  stack,              \* the activations of solve, outermost first
  shuffles,           \* the orders the random sort of solve may yield
  input,              \* the grid handed to solve or countSolutions, as it was then
  result,             \* what the call returned
  target              \* the removal count drawn at line 25

vars == <<pc, puzzleAndSolution, cellsToRemove, lastAttempt, deals, board, pencilMode,
          selectedCells, completed, lastOp, prevBoard, heap, stack, shuffles, input,
          result, target>>

engineVars == <<heap, stack, shuffles, input, result, target>>

playVars == <<board, pencilMode, selectedCells, completed, lastOp, prevBoard>>

NoOp == [kind |-> "none", sel |-> {}, digit |-> 0, pencil |-> FALSE]

NoAttempt ==
  [outcome |-> "none", counted |-> FALSE, passed |-> emptyBoard, after |-> emptyBoard,
   searched |-> emptyBoard, solutions |-> 0]

SolveResults == solve(cloneBoard(emptyBoard), SortOrders)

(* ---------------------------------------------------------------------- *)
(* solve, one activation at a time                                         *)
(* ---------------------------------------------------------------------- *)

(* what an activation of solve returns: null, or a grid object *)
NoValue == [kind |-> "none", ref |-> 0]
NullValue == [kind |-> "null", ref |-> 0]
BoardValue(ref) == [kind |-> "board", ref |-> ref]

(* cloneBoard handing back its argument *)
cloneBoardShared(h, b, fresh) == [heap |-> h, ref |-> b]

(* cloneBoard(b) on the grid object b of heap h: the copy is the new object
   `fresh` *)
cloneBoardAt(h, b, fresh) ==
  [heap |-> [r \in DOMAIN h \cup {fresh} |-> IF r = fresh THEN cloneBoard(h[b]) ELSE h[r]],
   ref |-> fresh]

(* lines 50 and 76-80: an activation of solve on the grid object b.  arg is
   the caller's object and passed what it held at the call; board is the
   activation's own object; tried lists the numbers taken from the shuffled
   order so far; got is what the recursive call returned *)
solveEnter(h, b, fresh) ==
  LET c == cloneBoardAt(h, b, fresh)
  IN  [heap |-> c.heap,
       frame |-> [arg |-> b, passed |-> h[b], board |-> c.ref,
                  pos |-> findEmpty(c.heap[c.ref]), tried |-> <<>>, got |-> NoValue]]

(* the numbers the shuffled order can hold after those of tried *)
NextNumbers(tried) ==
  {o[Len(tried) + 1] : o \in {x \in shuffles : SubSeq(x, 1, Len(tried)) = tried}}

(* the objects still referred to *)
Live(stk, v) ==
  {0} \cup {stk[k].board : k \in 1 .. Len(stk)}
      \cup (IF v.kind = "board" THEN {v.ref} ELSE {})

genVars == <<pc, puzzleAndSolution, cellsToRemove, lastAttempt, deals>>

(* the caller calls solve on object 0 *)
SolveCall ==
  /\ pc = "solve"
  /\ LET e == solveEnter(heap, 0, 1)
     IN  /\ heap' = e.heap
         /\ stack' = <<e.frame>>
  /\ pc' = "solving"
  /\ UNCHANGED <<puzzleAndSolution, cellsToRemove, lastAttempt, deals, playVars,
                 shuffles, input, result, target>>

(* SolveTry recursing on the grid it was called with, solve(b), instead of
   its own board *)
SolveTryOnArgument ==
  /\ pc = "solving"
  /\ LET top == Len(stack)
         f == stack[top]
     IN  /\ f.pos # <<>>
         /\ f.got.kind # "board"
         /\ Len(f.tried) < N
         /\ \E num \in NextNumbers(f.tried) :
              LET placed == [heap EXCEPT ![f.board][f.pos] = Num(num)]
                  stepped == [stack EXCEPT ![top].tried = Append(@, num)]
              IN  IF solveIsValid(placed[f.board], num, f.pos)
                  THEN LET e == solveEnter(placed, f.arg, top + 1)
                       IN  /\ heap' = e.heap
                           /\ stack' = Append(stepped, e.frame)
                  ELSE /\ heap' = [placed EXCEPT ![f.board][f.pos] = Null]
                       /\ stack' = stepped
  /\ UNCHANGED <<genVars, playVars, shuffles, input, result, target>>

(* lines 82-88: one pass of the for loop of the innermost activation, up to
   the recursive call if isValid accepts the number *)
SolveTry ==
  /\ pc = "solving"
  /\ LET top == Len(stack)
         f == stack[top]
     IN  /\ f.pos # <<>>
         /\ f.got.kind # "board"
         /\ Len(f.tried) < N
         /\ \E num \in NextNumbers(f.tried) :
              LET placed == [heap EXCEPT ![f.board][f.pos] = Num(num)]
                  stepped == [stack EXCEPT ![top].tried = Append(@, num)]
              IN  IF solveIsValid(placed[f.board], num, f.pos)
                  THEN LET e == solveEnter(placed, f.board, top + 1)
                       IN  /\ heap' = e.heap
                           /\ stack' = Append(stepped, e.frame)
                  ELSE /\ heap' = [placed EXCEPT ![f.board][f.pos] = Null]
                       /\ stack' = stepped
  /\ UNCHANGED <<genVars, playVars, shuffles, input, result, target>>

(* lines 77, 86 and 90: the innermost activation returns its board, the
   board its recursive call returned, or null; the caller takes the value
   and, on null, resets its cell (line 88) *)
SolveReturn ==
  /\ pc = "solving"
  /\ LET top == Len(stack)
         f == stack[top]
         v == IF f.pos = <<>> THEN BoardValue(f.board)
              ELSE IF f.got.kind = "board" THEN f.got
              ELSE NullValue
         rest == SubSeq(stack, 1, top - 1)
     IN  /\ f.pos = <<>> \/ f.got.kind = "board" \/ Len(f.tried) = N
         /\ IF rest = <<>>
            THEN /\ result' = IF v.kind = "board" THEN Solved(heap[v.ref]) ELSE Unsolvable
                 /\ stack' = <<>>
                 /\ heap' = [r \in {0} |-> heap[r]]
                 /\ pc' = "solved"
            ELSE LET c == rest[top - 1]
                     left == IF v.kind = "board" THEN heap
                             ELSE [heap EXCEPT ![c.board][c.pos] = Null]
                     stk == IF v.kind = "board" THEN [rest EXCEPT ![top - 1].got = v]
                            ELSE rest
                 IN  /\ stack' = stk
                     /\ heap' = [r \in Live(stk, v) |-> left[r]]
                     /\ UNCHANGED <<pc, result>>
  /\ UNCHANGED <<puzzleAndSolution, cellsToRemove, lastAttempt, deals, playVars,
                 shuffles, input, target>>

(* ---------------------------------------------------------------------- *)
(* generateNewPuzzle, step by step                                         *)
(* ---------------------------------------------------------------------- *)

(* line 18 and the argument of the call at line 19 *)
GenInit ==
  /\ pc = "solve"
  /\ puzzleAndSolution = [puzzle |-> emptyBoard, solution |-> emptyBoard]
  /\ cellsToRemove = 0
  /\ lastAttempt = NoAttempt
  /\ deals = {}
  /\ board = emptyBoard
  /\ pencilMode = FALSE
  /\ selectedCells = {}
  /\ completed = FALSE
  /\ lastOp = NoOp
  /\ prevBoard = emptyBoard
  /\ heap = (0 :> cloneBoard(emptyBoard))
  /\ stack = <<>>
  /\ shuffles = SortOrders
  /\ input = emptyBoard
  /\ result = Unsolvable
  /\ target = 0

(* lines 19-25: take the grid solve returned, copy it, draw the removal count *)
GenSolve ==
  /\ pc = "solved"
  /\ IF result.solved
     THEN \E u \in RandomUnits :
            /\ puzzleAndSolution' = [puzzle |-> cloneBoard(result.grid), solution |-> result.grid]
            /\ cellsToRemove' = randomCount(u, RemoveSpan, RemoveBase)
            /\ target' = randomCount(u, RemoveSpan, RemoveBase)
            /\ pc' = "carve"
     ELSE /\ pc' = "failed"
          /\ UNCHANGED <<puzzleAndSolution, cellsToRemove, target>>
  /\ UNCHANGED <<lastAttempt, deals, playVars, heap, stack, shuffles, input, result>>

(* lines 27-43: one pass of the while loop *)
GenCarve ==
  /\ pc = "carve"
  /\ cellsToRemove > 0
  /\ \E r \in Idx, c \in Idx :
       LET res == carveAttempt(puzzleAndSolution.puzzle, cellsToRemove, <<r, c>>)
       IN  /\ puzzleAndSolution' = [puzzleAndSolution EXCEPT !.puzzle = res.puzzle]
           /\ cellsToRemove' = res.cellsToRemove
           /\ lastAttempt' = [outcome |-> res.outcome, counted |-> res.counted,
                              passed |-> res.passed, after |-> res.after,
                              searched |-> res.searched, solutions |-> res.solutions]
  /\ UNCHANGED <<pc, deals, playVars, engineVars>>

(* line 45 *)
GenReturn ==
  /\ pc = "carve"
  /\ cellsToRemove = 0
  /\ pc' = "done"
  /\ UNCHANGED <<puzzleAndSolution, cellsToRemove, lastAttempt, deals, playVars, engineVars>>

GenNext == SolveCall \/ SolveTry \/ SolveReturn \/ GenSolve \/ GenCarve \/ GenReturn

SpecGen == GenInit /\ [][GenNext]_vars

(* ---------------------------------------------------------------------- *)
(* solve and countSolutions called on given grids                          *)
(* ---------------------------------------------------------------------- *)

(* the grid with the digits of `rows`, 0 for an empty cell *)
GridOf(rows) ==
  [p \in Cells |-> IF rows[p[1] + 1][p[2] + 1] = 0 THEN Null
                   ELSE Num(rows[p[1] + 1][p[2] + 1])]

(* b with the cells of E emptied *)
Without(b, E) == [p \in Cells |-> IF p \in E THEN Null ELSE b[p]]

FullGrid == GridOf(<< <<1, 2, 3, 4>>, <<3, 4, 1, 2>>, <<2, 1, 4, 3>>, <<4, 3, 2, 1>> >>)

(* grids that satisfy the placement invariant and have no completion: the
   first empty cell takes no number; the second one takes none whatever the
   first is given *)
DeadGridFirst == GridOf(<< <<1, 2, 0, 0>>, <<3, 4, 0, 2>>, <<2, 1, 3, 0>>, <<0, 3, 4, 1>> >>)
DeadGridSecond == GridOf(<< <<0, 0, 3, 4>>, <<0, 0, 1, 2>>, <<3, 1, 2, 0>>, <<4, 2, 0, 1>> >>)

(* the grids solve is called on with every order at every cell: one
   completion, none, and a grid that breaks the placement invariant *)
SolveGrids ==
  { Without(FullGrid, {<<0, 0>>, <<1, 1>>, <<3, 3>>}),
    DeadGridFirst,
    DeadGridSecond,
    GridOf(<< <<0, 2, 3, 4>>, <<3, 4, 1, 2>>, <<2, 1, 1, 3>>, <<4, 3, 2, 0>> >>) }

(* a grid with two completions, and the orders tried on it *)
TwoWayGrid == Without(FullGrid, {<<0, 0>>, <<0, 2>>, <<1, 0>>, <<1, 2>>})
TwoWayOrders == SortOrders \cup {<<3, 4, 1, 2>>, <<4, 3, 2, 1>>}

(* a call of solve: the grid, and the orders its random sorts may yield; on
   the empty grid one order serves every cell, or each cell draws one of
   SortOrders *)
SolveCases ==
  {[grid |-> g, shuffles |-> Perms] : g \in SolveGrids}
    \cup {[grid |-> TwoWayGrid, shuffles |-> TwoWayOrders]}
    \cup {[grid |-> emptyBoard, shuffles |-> {o}] : o \in Perms}
    \cup {[grid |-> emptyBoard, shuffles |-> SortOrders]}

SolveInit ==
  /\ pc = "solve"
  /\ \E case \in SolveCases :
       /\ input = case.grid
       /\ heap = (0 :> case.grid)
       /\ shuffles = case.shuffles
  /\ stack = <<>>
  /\ result = Unsolvable
  /\ target = 0
  /\ puzzleAndSolution = [puzzle |-> emptyBoard, solution |-> emptyBoard]
  /\ cellsToRemove = 0
  /\ lastAttempt = NoAttempt
  /\ deals = {}
  /\ board = emptyBoard
  /\ pencilMode = FALSE
  /\ selectedCells = {}
  /\ completed = FALSE
  /\ lastOp = NoOp
  /\ prevBoard = emptyBoard

SolveNext == SolveCall \/ SolveTry \/ SolveReturn

SpecSolve == SolveInit /\ [][SolveNext]_vars

(* every activation of solve runs on: nothing else is scheduled *)
FairSpecSolve == SpecSolve /\ WF_vars(SolveNext)

(* the grids countSolutions is called on: FullGrid with any cells of its
   first two rows emptied (one to four completions), and the grids without
   completion *)
TopRows == {p \in Cells : p[1] < BoxN}
CountGrids ==
  {Without(FullGrid, E) : E \in SUBSET TopRows} \cup {DeadGridFirst, DeadGridSecond}

CountInit ==
  /\ pc = "count"
  /\ input \in CountGrids
  /\ lastAttempt = NoAttempt
  /\ heap = (0 :> emptyBoard)
  /\ stack = <<>>
  /\ shuffles = {}
  /\ result = Unsolvable
  /\ target = 0
  /\ puzzleAndSolution = [puzzle |-> emptyBoard, solution |-> emptyBoard]
  /\ cellsToRemove = 0
  /\ deals = {}
  /\ board = emptyBoard
  /\ pencilMode = FALSE
  /\ selectedCells = {}
  /\ completed = FALSE
  /\ lastOp = NoOp
  /\ prevBoard = emptyBoard

(* countSolutions(b) on the grid `input` *)
CountCall ==
  /\ pc = "count"
  /\ LET run == countSolutionsRun(input)
     IN  lastAttempt' = [outcome |-> "counted", counted |-> TRUE, passed |-> input,
                        after |-> run.b, searched |-> run.b, solutions |-> run.solutions]
  /\ pc' = "counted"
  /\ UNCHANGED <<puzzleAndSolution, cellsToRemove, deals, playVars, engineVars>>

CountNext == CountCall

SpecCount == CountInit /\ [][CountNext]_vars

(* ---------------------------------------------------------------------- *)
(* The Sudoku component                                                    *)
(* ---------------------------------------------------------------------- *)

(* generateNewPuzzle with Math.random scripted: the sort of solve always
   yields `order`, the removal count draws k, the carving loop picks the
   cells of `picks` in turn *)
RECURSIVE carveRun(_, _, _)
carveRun(puzzle, n, picks) ==
  IF n = 0 \/ picks = <<>> THEN [puzzle |-> puzzle, cellsToRemove |-> n]
  ELSE LET res == carveAttempt(puzzle, n, Head(picks))
       IN  carveRun(res.puzzle, res.cellsToRemove, Tail(picks))

generateNewPuzzle(script) ==
  LET solution == (CHOOSE o \in solve(cloneBoard(emptyBoard), {script.order}) : o.solved).grid
      run == carveRun(cloneBoard(solution), script.k + RemoveBase, script.picks)
  IN  [puzzle |-> run.puzzle, solution |-> solution, cellsToRemove |-> run.cellsToRemove]

RandomScripts ==
  { [order |-> <<1, 2, 3, 4>>, k |-> 0,
     picks |-> << <<0, 0>>, <<0, 0>>, <<0, 1>>, <<3, 3>> >>],
    [order |-> <<1, 2, 3, 4>>, k |-> 1,
     picks |-> << <<0, 0>>, <<0, 1>>, <<2, 1>>, <<2, 0>>, <<3, 3>> >>] }

(* the pairs generateNewPuzzle returns under the scripts *)
GeneratedPairs ==
  { [puzzle |-> g.puzzle, solution |-> g.solution] :
      g \in {x \in {generateNewPuzzle(sc) : sc \in RandomScripts} : x.cellsToRemove = 0} }

(* the cells the player clicks, the keys pressed, the longest selection *)
ClickCells == { <<0, 0>>, <<0, 1>>, <<0, 2>>, <<3, 3>> }
Keys == {"Backspace", "Delete", "0", "1", "2"}
MaxSel == 2

NaN == -1

(* parseInt(key, 10) on the keys above *)
parseInt(key) ==
  CASE key = "0" -> 0
    [] key = "1" -> 1
    [] key = "2" -> 2
    [] key = "3" -> 3
    [] key = "4" -> 4
    [] OTHER -> NaN

isGiven(ps, p) == ps.puzzle[p] # Null

(* removeCandidates scanning the column only *)
removeCandidatesColumnOnly(b, p, value) ==
  [q \in Cells |->
     LET cell == b[q]
     IN  IF q[2] = p[2] /\ IsSet(cell) THEN Marks(cell.s \ {value}) ELSE cell]

removeCandidates(b, p, value) ==
  [q \in Cells |->
     LET cell == b[q]
     IN  IF q \in Unit(p) /\ IsSet(cell) THEN Marks(cell.s \ {value}) ELSE cell]

(* isPuzzleCompleted testing only that no cell is left without a digit *)
isPuzzleCompletedFilled(ps, b) == \A p \in Cells : IsNum(b[p])

(* isPuzzleCompleted returning true after the first row compared equal *)
isPuzzleCompletedFirstRow(ps, b) == \A p \in Cells : p[1] = 0 => b[p] = ps.solution[p]

isPuzzleCompleted(ps, b) == \A p \in Cells : b[p] = ps.solution[p]

(* clearSelected without the isGiven test *)
clearSelectedAny(ps, b, sel) ==
  [p \in Cells |-> IF p \in sel THEN Null ELSE b[p]]

(* clearSelected with the isGiven test inverted *)
clearSelectedGiven(ps, b, sel) ==
  [p \in Cells |-> IF p \in sel /\ isGiven(ps, p) THEN Null ELSE b[p]]

(* lines 257-262: the Backspace / Delete branch *)
clearSelected(ps, b, sel) ==
  [p \in Cells |-> IF p \in sel /\ ~isGiven(ps, p) THEN Null ELSE b[p]]

(* lines 273-276 *)
pencilMarkExistsInAll(b, sel, digit) ==
  \A p \in sel : IsSet(b[p]) /\ digit \in b[p].s

(* lines 278-290: the pencil branch *)
toggleCandidate(ps, b, sel, digit) ==
  LET existsInAll == pencilMarkExistsInAll(b, sel, digit)
  IN  [p \in Cells |->
         LET cell == b[p]
         IN  IF p \in sel /\ ~isGiven(ps, p)
             THEN LET start == IF IsSet(cell) THEN cell.s ELSE {}
                      candidates == IF existsInAll THEN start \ {digit}
                                    ELSE start \cup {digit}
                  IN  IF candidates # {} THEN Marks(candidates) ELSE Null
             ELSE cell]

(* lines 292-295 *)
numberExistsInAll(b, sel, digit) ==
  \A p \in sel : b[p] = Num(digit)

(* lines 297-306: the forEach of the digit branch over the cells still to
   visit, in row-major order *)
RECURSIVE placeEach(_, _, _, _, _)
placeEach(ps, b, todo, digit, existsInAll) ==
  IF todo = {} THEN b
  ELSE LET p == CHOOSE x \in todo : \A y \in todo : RowMajor(x) <= RowMajor(y)
           nb == IF isGiven(ps, p) THEN b
                 ELSE IF existsInAll THEN [b EXCEPT ![p] = Null]
                 ELSE removeCandidates([b EXCEPT ![p] = Num(digit)], p, digit)
       IN  placeEach(ps, nb, todo \ {p}, digit, existsInAll)

(* placeDigit that never toggles off *)
placeDigitNoToggle(ps, b, sel, digit) ==
  placeEach(ps, b, sel, digit, FALSE)

placeDigit(ps, b, sel, digit) ==
  placeEach(ps, b, sel, digit, numberExistsInAll(b, sel, digit))

(* onBoardKeyDown: the board, completion flag and selection it leaves, and
   the branch it took *)
onBoardKeyDown(ps, b, done, sel, pencil, key, ctrl) ==
  LET digit == parseInt(key)
      same(kind) == [board |-> b, completed |-> done, selectedCells |-> sel, kind |-> kind]
  IN  IF done THEN same("ignored")
      ELSE IF sel = {} THEN same("ignored")
      ELSE IF key = "Backspace" \/ key = "Delete"
           THEN [board |-> clearSelected(ps, cloneBoard(b), sel), completed |-> done,
                 selectedCells |-> sel, kind |-> "clear"]
      ELSE IF digit = NaN \/ digit < 1 \/ digit > N THEN same("ignored")
      ELSE LET isPencilInput == pencil \/ ctrl
               nextBoard == IF isPencilInput
                            THEN toggleCandidate(ps, cloneBoard(b), sel, digit)
                            ELSE placeDigit(ps, cloneBoard(b), sel, digit)
               puzzleCompleted == isPuzzleCompleted(ps, nextBoard)
           IN  [board |-> nextBoard,
                completed |-> (done \/ puzzleCompleted),
                selectedCells |-> IF puzzleCompleted THEN {} ELSE sel,
                kind |-> IF isPencilInput THEN "pencil" ELSE "digit"]

(* pencilConflict(b, row, col, num): the row, column and box scans compare
   every cell they visit, the cell (row, col) included *)
pencilConflict(b, p, num) == \E q \in Unit(p) : b[q] = Num(num)

(* lines 148-153: the state of a freshly mounted component *)
Mounted(pair) ==
  /\ deals = GeneratedPairs
  /\ pc = "play"
  /\ puzzleAndSolution = pair
  /\ cellsToRemove = 0
  /\ lastAttempt = NoAttempt
  /\ board = cloneBoard(pair.puzzle)
  /\ pencilMode = FALSE
  /\ selectedCells = {}
  /\ completed = FALSE
  /\ lastOp = NoOp
  /\ prevBoard = cloneBoard(pair.puzzle)
  /\ heap = (0 :> emptyBoard)
  /\ stack = <<>>
  /\ shuffles = {}
  /\ input = emptyBoard
  /\ result = Unsolvable
  /\ target = 0

Init == \E pair \in GeneratedPairs : Mounted(pair)

Event(kind) == [kind |-> kind, sel |-> {}, digit |-> 0, pencil |-> FALSE]

(* onCellMouseDown(r, c, e) *)
CellMouseDown ==
  /\ ~completed
  /\ \E p \in ClickCells, isCtrlOrCmd \in BOOLEAN :
       /\ selectedCells' =
            IF isCtrlOrCmd
            THEN IF p \in selectedCells THEN selectedCells \ {p} ELSE selectedCells \cup {p}
            ELSE {p}
       /\ Cardinality(selectedCells') <= MaxSel
  /\ lastOp' = Event("select")
  /\ prevBoard' = board
  /\ UNCHANGED <<genVars, engineVars, board, pencilMode, completed>>

(* onCellTouchStart(r, c) *)
CellTouchStart ==
  /\ ~completed
  /\ \E p \in ClickCells : selectedCells' = {p}
  /\ lastOp' = Event("select")
  /\ prevBoard' = board
  /\ UNCHANGED <<genVars, engineVars, board, pencilMode, completed>>

(* the pencil button: setPencilMode(p => !p) *)
TogglePencil ==
  /\ pencilMode' = ~pencilMode
  /\ lastOp' = Event("mode")
  /\ prevBoard' = board
  /\ UNCHANGED <<genVars, engineVars, board, selectedCells, completed>>

KeyDown ==
  \E key \in Keys, ctrl \in BOOLEAN :
    LET res == onBoardKeyDown(puzzleAndSolution, board, completed, selectedCells,
                              pencilMode, key, ctrl)
    IN  /\ board' = res.board
        /\ completed' = res.completed
        /\ selectedCells' = res.selectedCells
        /\ lastOp' = [kind |-> res.kind, sel |-> selectedCells,
                      digit |-> IF res.kind \in {"digit", "pencil"} THEN parseInt(key) ELSE 0,
                      pencil |-> res.kind = "pencil"]
        /\ prevBoard' = board
        /\ UNCHANGED <<genVars, engineVars, pencilMode>>

(* solveGame *)
SolveGame ==
  /\ board' = cloneBoard(puzzleAndSolution.solution)
  /\ completed' = TRUE
  /\ selectedCells' = {}
  /\ lastOp' = Event("solve")
  /\ prevBoard' = board
  /\ UNCHANGED <<genVars, engineVars, pencilMode>>

(* newGame without setCompleted(false) *)
NewGameStillCompleted ==
  /\ \E pair \in deals :
       /\ puzzleAndSolution' = pair
       /\ board' = cloneBoard(pair.puzzle)
       /\ prevBoard' = board
  /\ pencilMode' = FALSE
  /\ selectedCells' = {}
  /\ completed' = completed
  /\ lastOp' = Event("newgame")
  /\ UNCHANGED <<pc, cellsToRemove, lastAttempt, deals, engineVars>>

(* newGame, then App.newGame bumping the key of <Sudoku>, which mounts the
   component afresh *)
NewGame ==
  /\ \E pair \in deals :
       /\ puzzleAndSolution' = pair
       /\ board' = cloneBoard(pair.puzzle)
       /\ prevBoard' = board
  /\ pencilMode' = FALSE
  /\ selectedCells' = {}
  /\ completed' = FALSE
  /\ lastOp' = Event("newgame")
  /\ UNCHANGED <<pc, cellsToRemove, lastAttempt, deals, engineVars>>

Next == CellMouseDown \/ CellTouchStart \/ TogglePencil \/ KeyDown \/ SolveGame \/ NewGame

Spec == Init /\ [][Next]_vars

(* ---------------------------------------------------------------------- *)
(* Properties                                                              *)
(* ---------------------------------------------------------------------- *)

Givens == {p \in Cells : isGiven(puzzleAndSolution, p)}
KeyEvents == {"digit", "pencil", "clear"}
DigitKeys == {key \in Keys : parseInt(key) \in Digits}

(* C1: in every state of a session, whatever digits were placed, candidates
   toggled, cells cleared or instant solves made, every given cell of the
   board holds the digit the puzzle holds there. *)
C1_GivensImmutable ==
  \A p \in Givens : board[p] = puzzleAndSolution.puzzle[p]

(* a key was handled on a selection holding a given cell and a cell it changed *)
C1_Witness ==
  /\ lastOp.kind \in KeyEvents
  /\ \E p \in lastOp.sel : p \in Givens
  /\ \E q \in lastOp.sel : board[q] # prevBoard[q]

(* C2: when generateNewPuzzle returns, every filled cell of the puzzle holds
   the solution's digit and countSolutions of the puzzle is exactly 1. *)
C2_GeneratedPuzzle ==
  pc = "done" =>
    /\ \A p \in Cells : puzzleAndSolution.puzzle[p] # Null
                          => puzzleAndSolution.puzzle[p] = puzzleAndSolution.solution[p]
    /\ countSolutions(puzzleAndSolution.puzzle) = 1

(* the generator returned a puzzle with the larger removal count *)
C2_Witness ==
  /\ pc = "done"
  /\ Cardinality({p \in Cells : puzzleAndSolution.puzzle[p] = Null}) = RemoveBase + RemoveSpan - 1

(* C3: no cell of the board ever holds an empty candidate collection (a cell
   whose last mark is removed, also by pruning, becomes Empty). *)
C3_NoEmptyCandidates ==
  \A p \in Cells : ~(IsSet(board[p]) /\ board[p].s = {})

(* C4: after every action the session is Complete exactly when every cell of
   the board equals the solution's digit there. *)
C4_CompleteIffSolved ==
  completed <=> (\A p \in Cells : board[p] = puzzleAndSolution.solution[p])

(* the session became Complete by a digit placed from the keyboard *)
C4_Witness ==
  /\ completed
  /\ lastOp.kind = "digit"
  /\ board # prevBoard

(* C5: once the session is Complete, no step but a new game changes the board
   or the completion flag, and a new game leaves the session InProgress on a
   freshly dealt puzzle. *)
C5_CompleteTerminal ==
  [][completed =>
       IF lastOp'.kind = "newgame"
       THEN /\ ~completed'
            /\ puzzleAndSolution' \in deals
            /\ board' = puzzleAndSolution'.puzzle
       ELSE /\ completed'
            /\ board' = board
            /\ puzzleAndSolution' = puzzleAndSolution]_vars

(* a key was pressed while the session was Complete *)
C5_Witness ==
  /\ completed
  /\ lastOp.kind = "ignored"

HasMark(cell, d) == IsSet(cell) /\ d \in cell.s

(* the board after the digit key is handled twice on the current selection *)
placeTwice(key) ==
  LET r1 == onBoardKeyDown(puzzleAndSolution, board, completed, selectedCells,
                           FALSE, key, FALSE)
  IN  onBoardKeyDown(puzzleAndSolution, r1.board, r1.completed, selectedCells,
                     FALSE, key, FALSE).board

(* the board after the digit key is handled twice in pencil mode *)
toggleTwice(key) ==
  LET r1 == onBoardKeyDown(puzzleAndSolution, board, completed, selectedCells,
                           TRUE, key, FALSE)
  IN  onBoardKeyDown(puzzleAndSolution, r1.board, r1.completed, selectedCells,
                     TRUE, key, FALSE).board

(* what makes placing d on sel reversible: only non-given cells selected, all
   of them Empty or all of them holding d, and no cell in their rows, columns
   or boxes marked with d *)
Reversible(b, sel, d) ==
  /\ sel # {}
  /\ sel \cap Givens = {}
  /\ \/ \A p \in sel : b[p] = Null
     \/ \A p \in sel : b[p] = Num(d)
  /\ \A p \in sel : \A q \in Unit(p) : ~HasMark(b[q], d)

(* C6, as the specification states it: placing the same digit twice on the
   same selection returns the board to what it was before the first call. *)
C6_ToggleLawAnySelection ==
  \A key \in DigitKeys : placeTwice(key) = board

(* C6, amended: the same, for a selection of non-given cells that are all
   Empty or all hold the digit, with no mark of the digit among their peers,
   when the first call does not complete the puzzle. *)
C6_ToggleLaw ==
  \A key \in DigitKeys :
    ( /\ Reversible(board, selectedCells, parseInt(key))
      /\ ~onBoardKeyDown(puzzleAndSolution, board, completed, selectedCells,
                         FALSE, key, FALSE).completed )
      => placeTwice(key) = board

(* a digit was placed on two reversible cells and placing it again clears them *)
C6_Witness ==
  /\ lastOp.kind = "digit"
  /\ ~completed
  /\ selectedCells = lastOp.sel
  /\ Cardinality(lastOp.sel) = 2
  /\ Reversible(prevBoard, lastOp.sel, lastOp.digit)
  /\ board # prevBoard
  /\ \E key \in DigitKeys :
       /\ parseInt(key) = lastOp.digit
       /\ onBoardKeyDown(puzzleAndSolution, board, completed, selectedCells,
                         FALSE, key, FALSE).board = prevBoard

(* C7: on a selection whose non-given cells all carry mark d or all lack it,
   toggling candidate d twice returns every selected cell's membership of d,
   and whether it is Empty or Candidates, to what it was; given cells in the
   selection make no difference. *)
C7_CandidateToggleLaw ==
  \A key \in DigitKeys :
    LET d == parseInt(key)
        nonGiven == selectedCells \ Givens
        after == toggleTwice(key)
    IN  ( \/ \A p \in nonGiven : HasMark(board[p], d)
          \/ \A p \in nonGiven : ~HasMark(board[p], d) )
        => \A p \in selectedCells :
             /\ HasMark(after[p], d) <=> HasMark(board[p], d)
             /\ ~IsNum(board[p]) => after[p].k = board[p].k

(* C8: when a candidate is added, a selected non-given cell holding a digit
   keeps that digit. *)
C8_AddPathKeepsDigits ==
  lastOp.kind = "pencil" =>
    \A p \in lastOp.sel \ Givens : IsNum(prevBoard[p]) => board[p] = prevBoard[p]

(* C9: placing d clears the selected non-given cells when all of them hold d,
   whatever the given cells of the selection hold, and otherwise sets all of
   them to d; given cells are skipped. *)
C9_ToggleOffByNonGiven ==
  lastOp.kind = "digit" =>
    LET d == lastOp.digit
        nonGiven == lastOp.sel \ Givens
    IN  /\ IF \A p \in nonGiven : prevBoard[p] = Num(d)
           THEN \A p \in nonGiven : board[p] = Null
           ELSE \A p \in nonGiven : board[p] = Num(d)
        /\ \A g \in lastOp.sel \cap Givens : board[g] = prevBoard[g]

(* the cells sharing a row, column or box with a cell of S, outside S *)
PeersOf(S) == (UNION {Unit(p) : p \in S}) \ S

(* C10: when digits are placed (not toggled off), every peer of a placed cell
   loses mark d and nothing else, and every cell that is neither placed nor a
   peer of a placed cell is left as it was. *)
C10_PeerPruning ==
  (lastOp.kind = "digit" /\ ~numberExistsInAll(prevBoard, lastOp.sel, lastOp.digit)) =>
    LET d == lastOp.digit
        placed == lastOp.sel \ Givens
    IN  /\ \A p \in placed : board[p] = Num(d)
        /\ \A q \in PeersOf(placed) :
             IF IsSet(prevBoard[q]) THEN board[q] = Marks(prevBoard[q].s \ {d})
             ELSE board[q] = prevBoard[q]
        /\ \A q \in Cells \ (placed \cup PeersOf(placed)) : board[q] = prevBoard[q]

(* a digit was placed next to a peer marked with it while a cell elsewhere
   carried the same mark *)
C10_Witness ==
  /\ lastOp.kind = "digit"
  /\ ~numberExistsInAll(prevBoard, lastOp.sel, lastOp.digit)
  /\ LET placed == lastOp.sel \ Givens
     IN  /\ placed # {}
         /\ \E q \in PeersOf(placed) : HasMark(prevBoard[q], lastOp.digit)
         /\ \E q \in Cells \ (placed \cup PeersOf(placed)) : HasMark(prevBoard[q], lastOp.digit)

(* the board holds the puzzle's givens and, elsewhere, nothing or the
   solution's digit *)
OnSolutionPath(b) ==
  \A p \in Cells : b[p] = Null \/ b[p] = puzzleAndSolution.solution[p]

(* the last event placed the solution's digit on the single selected cell p,
   a given cell or a cell not yet filled, of a board on the solution path *)
PlacedSolutionDigit(p) ==
  /\ lastOp.kind = "digit"
  /\ lastOp.sel = {p}
  /\ p \in Givens \/ prevBoard[p] = Null
  /\ Num(lastOp.digit) = puzzleAndSolution.solution[p]
  /\ OnSolutionPath(prevBoard)

(* C13: when the solution's digits are placed one cell at a time on the
   puzzle, the session is Complete right after the placement that fills the
   last empty cell and after no earlier placement. *)
C13_CompleteOnLastPlacement ==
  \A p \in Cells :
    PlacedSolutionDigit(p) =>
      /\ board = [prevBoard EXCEPT ![p] = puzzleAndSolution.solution[p]]
      /\ completed <=> (\A q \in Cells : board[q] # Null)

(* the placement that filled the last empty cell, the others having been
   filled before it *)
C13_Witness ==
  /\ completed
  /\ \E p \in Cells \ Givens :
       /\ PlacedSolutionDigit(p)
       /\ \A q \in Cells \ {p} : prevBoard[q] # Null
       /\ prevBoard # puzzleAndSolution.puzzle

(* the board after Backspace and then the digit key on the current selection *)
clearThenPlace(key) ==
  LET r1 == onBoardKeyDown(puzzleAndSolution, board, completed, selectedCells,
                           FALSE, "Backspace", FALSE)
  IN  onBoardKeyDown(puzzleAndSolution, r1.board, r1.completed, selectedCells,
                     FALSE, key, FALSE).board

(* the board after the digit key alone *)
placeOnce(key) ==
  onBoardKeyDown(puzzleAndSolution, board, completed, selectedCells,
                 FALSE, key, FALSE).board

(* C14: on the initial board (a copy of the puzzle), clearing a selection
   and then placing a digit on it gives the board that placing the digit
   alone gives. *)
C14_ClearThenPlace ==
  (board = puzzleAndSolution.puzzle /\ ~completed) =>
    \A key \in DigitKeys : clearThenPlace(key) = placeOnce(key)

(* Backspace was pressed on the initial board with a given and a non-given
   cell selected, and a digit placed next changes the board *)
C14_Witness ==
  /\ lastOp.kind = "clear"
  /\ prevBoard = puzzleAndSolution.puzzle
  /\ board = puzzleAndSolution.puzzle
  /\ selectedCells = lastOp.sel
  /\ selectedCells \cap Givens # {}
  /\ selectedCells \ Givens # {}
  /\ \E key \in DigitKeys : placeOnce(key) # board

(* C15: pencilConflict(b, r, c, d) is true exactly when a cell other than
   (r, c) in the row, column or box of (r, c) holds d; what (r, c) itself
   holds makes no difference. *)
C15_PeersOnly ==
  \A p \in Cells : \A d \in Digits :
    pencilConflict(board, p, d) <=> (\E q \in Unit(p) \ {p} : board[q] = Num(d))

(* ---------------------------------------------------------------------- *)
(* Properties of solve, countSolutions and generateNewPuzzle               *)
(* ---------------------------------------------------------------------- *)

EmptyCells(g) == {p \in Cells : g[p] = Null}

(* no two distinct cells of a row, column or box hold the same digit *)
PlacementValid(g) ==
  \A p \in Cells : IsNum(g[p]) => \A q \in Unit(p) : q = p \/ g[q] # g[p]

(* the boxes, by the coordinates of their first cell *)
BoxStarts == {BoxStart(i) : i \in Idx}
BoxCells(r, c) == {q \in Cells : BoxStart(q[1]) = r /\ BoxStart(q[2]) = c}

(* every row, column and box holds each digit exactly once *)
EachDigitOnce(g) ==
  \A d \in Digits :
    /\ \A r \in Idx : Cardinality({c \in Idx : g[<<r, c>>] = Num(d)}) = 1
    /\ \A c \in Idx : Cardinality({r \in Idx : g[<<r, c>>] = Num(d)}) = 1
    /\ \A r \in BoxStarts : \A c \in BoxStarts :
         Cardinality({q \in BoxCells(r, c) : g[q] = Num(d)}) = 1

(* the complete grids that extend g and satisfy the placement invariant,
   by enumeration of every filling of the empty cells *)
Completions(g) ==
  { h \in { [p \in Cells |-> IF g[p] = Null THEN Num(f[p]) ELSE g[p]] :
              f \in [EmptyCells(g) -> Digits] } : PlacementValid(h) }

(* C11: solve on the empty grid returns, whatever the order of the digits,
   a grid in which every row, column and box holds each digit exactly once;
   it never returns null. *)
C11_SolveEmptyGrid ==
  (pc = "solved" /\ input = emptyBoard) =>
    /\ result.solved
    /\ EachDigitOnce(result.grid)

(* solve returned on the empty grid under the descending order *)
C11_Witness ==
  /\ pc = "solved"
  /\ input = emptyBoard
  /\ shuffles = {<<4, 3, 2, 1>>}
  /\ result.solved
  /\ result.grid[<<0, 0>>] = Num(4)

(* C18: on a grid whose filled cells satisfy the placement invariant, solve
   returns a full grid that satisfies it and keeps every filled cell of the
   input, and returns null only when the input has no such completion. *)
C18_SolveCorrect ==
  (pc = "solved" /\ PlacementValid(input)) =>
    IF result.solved
    THEN /\ EmptyCells(result.grid) = {}
         /\ \A p \in Cells : IsNum(result.grid[p])
         /\ PlacementValid(result.grid)
         /\ \A p \in Cells : input[p] # Null => result.grid[p] = input[p]
    ELSE Completions(input) = {}

(* solve returned the second completion of a grid that has two, having
   found the first digit it tried at the first cell to be the other one's *)
C18_Witness ==
  /\ pc = "solved"
  /\ input = TwoWayGrid
  /\ result.solved
  /\ result.grid # FullGrid

(* the depth of the recursion falls with the empty cells, and no activation
   takes a number twice or more than N numbers *)
SolveMeasure ==
  /\ \A k \in 1 .. Len(stack) :
       /\ Len(stack[k].tried) <= N
       /\ \A i, j \in 1 .. Len(stack[k].tried) :
            stack[k].tried[i] = stack[k].tried[j] => i = j
  /\ \A k \in 1 .. (Len(stack) - 1) :
       Cardinality(EmptyCells(stack[k + 1].passed))
         < Cardinality(EmptyCells(stack[k].passed))

(* C19: solve returns on every grid and under every order of the digits;
   every recursive call is on a grid with fewer empty cells than its
   caller's, and every activation tries at most N numbers. *)
C19_SolveTerminates ==
  /\ []SolveMeasure
  /\ <>(pc = "solved")

(* solve returned null from a grid that breaks the placement invariant *)
C19_Witness ==
  /\ pc = "solved"
  /\ ~PlacementValid(input)
  /\ ~result.solved

Min(a, b) == IF a < b THEN a ELSE b

(* C12: on a grid of digits and empty cells that satisfies the placement
   invariant, countSolutions returns the number of its completions when
   that is 0 or 1 and 2 when it is more. *)
C12_CountIsCappedNumber ==
  (pc = "counted" /\ PlacementValid(input)) =>
    lastAttempt.solutions = Min(Cardinality(Completions(input)), 2)

(* countSolutions returned 2 on a grid with more than two completions *)
C12_Witness ==
  /\ pc = "counted"
  /\ Cardinality(Completions(input)) > 2
  /\ lastAttempt.solutions = 2

(* the values Math.floor(Math.random() * span) + base can take *)
CountsDrawn(span, base) == {randomCount(u, span, base) : u \in RandomUnits}

(* C16: when generateNewPuzzle returns, the puzzle has as many empty cells
   as the removal count drawn at line 25, and that count lies in the range
   the formula of line 25 gives: RemoveBase .. RemoveBase + RemoveSpan - 1 on
   the grid of the model, 46 .. 56 with the numbers of the source. *)
C16_RemovalTarget ==
  /\ pc = "done" =>
       /\ Cardinality(EmptyCells(puzzleAndSolution.puzzle)) = target
       /\ target \in RemoveBase .. (RemoveBase + RemoveSpan - 1)
  /\ CountsDrawn(SourceSpan, SourceBase) \subseteq 46 .. 56

(* the generator returned with the smallest count drawn; line 25 can draw
   both 46 and 56 *)
C16_Witness ==
  /\ pc = "done"
  /\ target = RemoveBase
  /\ Cardinality(EmptyCells(puzzleAndSolution.puzzle)) = RemoveBase
  /\ {46, 56} \subseteq CountsDrawn(SourceSpan, SourceBase)

(* at the head of the carving loop: one solution, and the cells emptied
   plus the cells still to remove make the count drawn *)
CarveLoopHead ==
  /\ countSolutions(puzzleAndSolution.puzzle) = 1
  /\ Cardinality(EmptyCells(puzzleAndSolution.puzzle)) + cellsToRemove = target

(* what a pass of the carving loop does to the grid and the count *)
CarvePassEffect ==
  IF lastAttempt'.counted /\ lastAttempt'.solutions = 1
  THEN /\ \E p \in Cells :
            /\ puzzleAndSolution.puzzle[p] # Null
            /\ puzzleAndSolution'.puzzle = Without(puzzleAndSolution.puzzle, {p})
       /\ cellsToRemove' = cellsToRemove - 1
  ELSE /\ puzzleAndSolution'.puzzle = puzzleAndSolution.puzzle
       /\ cellsToRemove' = cellsToRemove

(* C17: a pass of the carving loop that picks an empty cell, or whose
   removal leaves countSolutions other than 1, changes neither the grid nor
   the count; a pass whose removal leaves countSolutions at 1 empties one
   cell and takes one off the count; at every head of the loop the grid has
   one solution and its empty cells plus the count make the count drawn. *)
C17_CarveLoop ==
  /\ [](pc = "carve" => CarveLoopHead)
  /\ [][(pc = "carve" /\ pc' = "carve") => CarvePassEffect]_vars

(* a pass put the digit back after countSolutions found two solutions, with
   cells still to remove *)
C17_Witness ==
  /\ pc = "carve"
  /\ cellsToRemove > 0
  /\ lastAttempt.outcome = "restored"
  /\ lastAttempt.solutions = 2

(* C20: solve and countSolutions leave their caller's grid as it was: the
   grid an activation of solve was called on holds what it held at the call,
   and the puzzle holds after countSolutions(cloneBoard(puzzle)) what it held
   before, also when the counter stops at two solutions. *)
C20_CallerGridIntact ==
  /\ heap[0] = input
  /\ \A k \in 1 .. Len(stack) : heap[stack[k].arg] = stack[k].passed
  /\ lastAttempt.counted => lastAttempt.after = lastAttempt.passed

(* solve has returned a full grid for the empty one, and the counter
   stopped at two solutions leaving digits in the grid it searched on *)
C20_Witness ==
  /\ pc = "carve"
  /\ result.solved
  /\ result.grid # heap[0]
  /\ lastAttempt.counted
  /\ lastAttempt.solutions = 2
  /\ lastAttempt.searched # lastAttempt.passed

====
